---- MODULE Spec2Model ----
(***************************************************************************)
(* A model of the PDF sealer: src/pdf_sealer.py (the command-line variant) *)
(* and src/pdf_sealer_my_davia.py (the Davia task variant).                *)
(*                                                                         *)
(* Lengths are integers in units of 1/2000 point (Pt(n) is n points), so   *)
(* that a string width (AFM glyph widths are 1/1000 em) and the footer's   *)
(* (page_width - text_width) / 2 are exact.  Opacity is in hundredths.     *)
(* A Python string is a sequence of one-character strings.  An optional    *)
(* value is a sequence of length 0 (None) or 1.                            *)
(***************************************************************************)
EXTENDS Integers, Sequences, FiniteSets, TLC

VARIABLES args, fs, pc, page_num, handler, canvas, row, col,
          watermark_config, pdf_writer, result, log, probe, runs

vars == <<args, fs, pc, page_num, handler, canvas, row, col,
          watermark_config, pdf_writer, result, log, probe, runs>>

\* ------------------------------------------------------------- bounds
MaxPages == 2
MaxSizeLen == 3
MaxRuns == 2

\* ------------------------------------------------------------ helpers
Pt(n) == n * 2000

Max(a, b) == IF a >= b THEN a ELSE b
Min(a, b) == IF a <= b THEN a ELSE b

None == <<>>
Some(x) == <<x>>

Str_small == <<"s", "m", "a", "l", "l">>
Str_medium == <<"m", "e", "d", "i", "u", "m">>
Str_large == <<"l", "a", "r", "g", "e">>

\* ------------------------------------------------ Python's int(str, base)
DecDigits == {"0", "1", "2", "3", "4", "5", "6", "7", "8", "9"}
HexLetters == {"A", "B", "C", "D", "E", "F", "a", "b", "c", "d", "e", "f"}

DigitSet(base) == IF base = 16 THEN DecDigits \cup HexLetters ELSE DecDigits

DigitVal(c) ==
  CASE c = "0" -> 0 [] c = "1" -> 1 [] c = "2" -> 2 [] c = "3" -> 3
    [] c = "4" -> 4 [] c = "5" -> 5 [] c = "6" -> 6 [] c = "7" -> 7
    [] c = "8" -> 8 [] c = "9" -> 9
    [] c \in {"A", "a"} -> 10 [] c \in {"B", "b"} -> 11
    [] c \in {"C", "c"} -> 12 [] c \in {"D", "d"} -> 13
    [] c \in {"E", "e"} -> 14 [] c \in {"F", "f"} -> 15

RECURSIVE LStrip(_)
LStrip(s) == IF s # <<>> /\ Head(s) = " " THEN LStrip(Tail(s)) ELSE s

RECURSIVE RStrip(_)
RStrip(s) ==
  IF s # <<>> /\ s[Len(s)] = " " THEN RStrip(SubSeq(s, 1, Len(s) - 1)) ELSE s

Strip(s) == RStrip(LStrip(s))

\* The digit part of an integer literal: digits, with single underscores
\* allowed only between two digits.
DigitBodyOk(b, base) ==
  /\ b # <<>>
  /\ \A i \in 1..Len(b) : b[i] \in DigitSet(base) \cup {"_"}
  /\ b[1] # "_"
  /\ b[Len(b)] # "_"
  /\ \A i \in 1..(Len(b) - 1) : ~(b[i] = "_" /\ b[i + 1] = "_")

RECURSIVE DigitBodyVal(_, _, _)
DigitBodyVal(b, base, acc) ==
  IF b = <<>> THEN acc
  ELSE IF Head(b) = "_" THEN DigitBodyVal(Tail(b), base, acc)
  ELSE DigitBodyVal(Tail(b), base, acc * base + DigitVal(Head(b)))

\* int(s, base) for a str s: surrounding whitespace is stripped, one optional
\* sign, then the digit part; anything else raises ValueError.
PyIntBase(s, base) ==
  LET t == Strip(s)
      signed == t # <<>> /\ Head(t) \in {"+", "-"}
      b == IF signed THEN Tail(t) ELSE t
  IN IF DigitBodyOk(b, base)
     THEN [err |-> "",
           val |-> (IF signed /\ Head(t) = "-" THEN -1 ELSE 1) * DigitBodyVal(b, base, 0)]
     ELSE [err |-> "ValueError", val |-> 0]

\* A parse that yields 0 instead of raising.
PyIntSilent(s) == [err |-> "", val |-> PyIntBase(s, 10).val]

\* int(s)
PyInt(s) == PyIntBase(s, 10)

\* ------------------------------------------------- QRCodeGenerator
SIZE_PRESETS(size) ==
  CASE size = Str_small -> 30 [] size = Str_medium -> 50 [] size = Str_large -> 80

InPresets(size) == size \in {Str_small, Str_medium, Str_large}

\* QRCodeGenerator.__init__: the resolved size in points, or the ValueError.
QRCodeGenerator_init(size) ==
  IF InPresets(size) THEN [err |-> "", size |-> SIZE_PRESETS(size)]
  ELSE LET r == PyInt(size) IN [err |-> r.err, size |-> r.val]

\* --------------------------------------------------- WatermarkConfig
ClampNoUpper(lo, hi, v) == Max(lo, v)

\* max(lo, min(hi, v))
Clamp(lo, hi, v) == Max(lo, Min(hi, v))

\* WatermarkConfig.__init__ (opacity in hundredths: 0.1 is 10, 1.0 is 100)
WatermarkConfig(a) ==
  [text |-> a.text,
   font_size |-> Clamp(8, 72, a.font_size),
   opacity |-> Clamp(10, 100, a.opacity),
   angle |-> Clamp(-90, 90, a.angle),
   spacing_x |-> Clamp(50, 500, a.spacing_x),
   spacing_y |-> Clamp(50, 500, a.spacing_y),
   color |-> a.color]

\* ------------------------------------------------ reportlab: text and colour
\* AFM advance widths (1/1000 em) of the glyphs the modelled texts use.
GlyphWidth(font, c) ==
  IF font = "Helvetica-Bold"
  THEN CASE c \in {"D", "R", "A"} -> 722
         [] c \in {"F", "T"} -> 611
         [] OTHER -> 556
  ELSE CASE c = "C" -> 722
         [] c = "O" -> 778
         [] c = "K" -> 667
         [] c \in {"f", "t"} -> 278
         [] c \in {"i", "l"} -> 222
         [] OTHER -> 556

RECURSIVE GlyphSum(_, _)
GlyphSum(text, font) ==
  IF text = <<>> THEN 0 ELSE GlyphWidth(font, Head(text)) + GlyphSum(Tail(text), font)

\* canvas.stringWidth(text, font, size): size in points, result in 1/2000 pt.
stringWidth(text, font, size) == GlyphSum(text, font) * size * 2

black == [rgb |-> 0, alpha |-> 100]
gray == [rgb |-> 8421504, alpha |-> 100]

\* HexColor(val): "#..." and "0x..." are read in base 16, anything else in
\* base 10; the low 24 bits are the colour.  A string int() rejects raises.
HexColor(val) ==
  LET hash == val # <<>> /\ Head(val) = "#"
      zerox == ~hash /\ Len(val) >= 2 /\ val[1] = "0" /\ val[2] \in {"x", "X"}
      digits == IF hash THEN Tail(val)
                ELSE IF zerox THEN SubSeq(val, 3, Len(val)) ELSE val
      r == PyIntBase(digits, IF hash \/ zerox THEN 16 ELSE 10)
  IN [err |-> r.err, rgb |-> r.val % 16777216]

\* int(a / b): Python truncates the quotient toward zero.
IntTrunc(a, b) ==
  IF (a >= 0) = (b > 0) THEN a \div b ELSE -((-a) \div b)

\* ----------------------------------------------------- the canvas
Identity == [tx |-> 0, ty |-> 0, rot |-> 0]

\* canvas.Canvas(buffer, pagesize=(w, h))
NewCanvas(w, h) ==
  [pagesize |-> <<w, h>>, ops |-> <<>>, font |-> "Helvetica", fontsize |-> 12,
   fill |-> black, ctm |-> Identity, stack |-> <<>>]

setFont(c, font, size) == [c EXCEPT !.font = font, !.fontsize = size]
setFillColor(c, colour) == [c EXCEPT !.fill = colour]
saveState(c) ==
  [c EXCEPT !.stack = Append(@, [font |-> c.font, fontsize |-> c.fontsize,
                                  fill |-> c.fill, ctm |-> c.ctm])]
restoreState(c) ==
  LET top == c.stack[Len(c.stack)]
  IN [c EXCEPT !.font = top.font, !.fontsize = top.fontsize, !.fill = top.fill,
               !.ctm = top.ctm, !.stack = SubSeq(@, 1, Len(@) - 1)]
\* translate under an unrotated transform (the only use the code makes of it)
translate(c, x, y) == [c EXCEPT !.ctm.tx = @ + x, !.ctm.ty = @ + y]
rotate(c, angle) == [c EXCEPT !.ctm.rot = @ + angle]

\* drawString(x, y, text) under a transform whose rotation is about (tx, ty):
\* the text's anchor in page space is exact when x = y = 0 or rot = 0.
drawString(c, x, y, text) ==
  [c EXCEPT !.ops = Append(@, [op |-> "text", x |-> c.ctm.tx + x, y |-> c.ctm.ty + y,
                                rot |-> c.ctm.rot, text |-> text, font |-> c.font,
                                fontsize |-> c.fontsize, fill |-> c.fill])]

drawImage(c, image, x, y, width, height) ==
  [c EXCEPT !.ops = Append(@, [op |-> "image", x |-> c.ctm.tx + x, y |-> c.ctm.ty + y,
                                rot |-> c.ctm.rot, image |-> image,
                                width |-> width, height |-> height])]

\* ------------------------------------- PDFHeaderFooter (per-page handler)
\* A handler built once and kept for the later pages.
PDFHeaderFooter_init_stale(page_width, page_height, qr_size) ==
  LET g == QRCodeGenerator_init(qr_size)
  IN [err |-> g.err,
      obj |-> IF handler # None THEN handler[1]
              ELSE [page_width |-> page_width, page_height |-> page_height,
                    qr_size |-> g.size]]

\* PDFHeaderFooter.__init__ builds a QRCodeGenerator from qr_size each time.
PDFHeaderFooter_init(page_width, page_height, qr_size) ==
  LET g == QRCodeGenerator_init(qr_size)
  IN [err |-> g.err,
      obj |-> [page_width |-> page_width, page_height |-> page_height,
               qr_size |-> g.size]]

margin == 20

\* The QR code anchored at the bottom right instead of the top right.
add_qr_code_to_canvas_bottom(c, h, qr_data) ==
  LET qr_size == Pt(h.qr_size)
  IN drawImage(c, [qr |-> qr_data, fill |-> "black", back |-> "white"],
               h.page_width - qr_size - Pt(20), Pt(20), qr_size, qr_size)

\* _add_qr_code_to_canvas: the generated image is drawn as a square of the
\* resolved size at the top right.
add_qr_code_to_canvas(c, h, qr_data) ==
  LET qr_size == Pt(h.qr_size)
      x_position == h.page_width - qr_size - Pt(margin)
      y_position == h.page_height - qr_size - Pt(margin)
  IN drawImage(c, [qr |-> qr_data, fill |-> "black", back |-> "white"],
               x_position, y_position, qr_size, qr_size)

FooterFontSize == 10
FooterY == 20

\* The footer left-aligned at the margin instead of centred.
add_footer_to_canvas_left(c, h, footer_message) ==
  drawString(setFillColor(setFont(c, "Helvetica", 10), black), Pt(20), Pt(20),
             footer_message)

\* _add_footer_to_canvas
add_footer_to_canvas(c, h, footer_message) ==
  LET c1 == setFillColor(setFont(c, "Helvetica", FooterFontSize), black)
      text_width == stringWidth(footer_message, "Helvetica", FooterFontSize)
      x_position == (h.page_width - text_width) \div 2
  IN drawString(c1, x_position, Pt(FooterY), footer_message)

\* A fallback that keeps the configured opacity on the gray.
watermark_begin_gray_opacity(c, cfg) ==
  LET c1 == setFont(c, "Helvetica-Bold", cfg.font_size)
      colour == HexColor(cfg.color)
  IN setFillColor(c1, [rgb |-> IF colour.err = "" THEN colour.rgb ELSE gray.rgb,
                       alpha |-> cfg.opacity])

\* _add_watermark_to_canvas, before the loops: font and fill colour
watermark_begin(c, cfg) ==
  LET c1 == setFont(c, "Helvetica-Bold", cfg.font_size)
      colour == HexColor(cfg.color)
  IN IF colour.err = ""
     THEN setFillColor(c1, [rgb |-> colour.rgb, alpha |-> cfg.opacity])
     ELSE setFillColor(c1, gray)

ExtraSpace == 50

wm_text_width(cfg) == stringWidth(cfg.text, "Helvetica-Bold", cfg.font_size)

SpacingXConfiguredOnly(cfg) == Pt(cfg.spacing_x)

\* spacing_x = max(watermark_config.spacing_x, text_width + 50)
wm_spacing_x(cfg) == Max(Pt(cfg.spacing_x), wm_text_width(cfg) + Pt(ExtraSpace))

\* spacing_y = max(watermark_config.spacing_y, watermark_config.font_size + 50)
wm_spacing_y(cfg) == Max(Pt(cfg.spacing_y), Pt(cfg.font_size) + Pt(ExtraSpace))

Overscan == 2

NumColsNoOverscan(h, cfg) == IntTrunc(h.page_width, wm_spacing_x(cfg))

\* num_cols = int(self.page_width / spacing_x) + 2
wm_num_cols(h, cfg) == IntTrunc(h.page_width, wm_spacing_x(cfg)) + Overscan

\* num_rows = int(self.page_height / spacing_y) + 2
wm_num_rows(h, cfg) == IntTrunc(h.page_height, wm_spacing_y(cfg)) + Overscan

\* A tile whose translation and rotation are not undone afterwards.
draw_tile_no_restore(c, h, cfg, r, k) ==
  LET x == k * wm_spacing_x(cfg)
      y == h.page_height - (r * wm_spacing_y(cfg))
      c2 == rotate(translate(c, x, y), cfg.angle)
  IN drawString(c2, 0, 0, cfg.text)

\* One iteration of the inner loop: the tile of (r, k).
draw_tile(c, h, cfg, r, k) ==
  LET x == k * wm_spacing_x(cfg)
      y == h.page_height - (r * wm_spacing_y(cfg))
      c1 == saveState(c)
      c2 == rotate(translate(c1, x, y), cfg.angle)
      c3 == drawString(c2, 0, 0, cfg.text)
  IN restoreState(c3)

\* Merging that replaces what an earlier sealing run stamped on the page.
merge_page_replace(page, overlay) ==
  [page EXCEPT !.content = <<page.content[1], [op |-> "overlay", w |-> overlay.pagesize[1],
                                                h |-> overlay.pagesize[2], ops |-> overlay.ops]>>]

\* page.merge_page(overlay_page): the overlay's content is drawn over the
\* page's own; the page keeps its media box.
merge_page(page, overlay) ==
  [page EXCEPT !.content = Append(@, [op |-> "overlay", w |-> overlay.pagesize[1],
                                       h |-> overlay.pagesize[2], ops |-> overlay.ops])]

\* --------------------------------------------------------- the inputs
P_pdf == <<"a", ".", "p", "d", "f">>
P_PDF == <<"a", ".", "P", "D", "F">>
P_txt == <<"a", ".", "t", "x", "t">>

Lower(c) ==
  CASE c = "P" -> "p" [] c = "D" -> "d" [] c = "F" -> "f" [] OTHER -> c

lower(s) == [i \in 1..Len(s) |-> Lower(s[i])]

endswith(s, suffix) ==
  /\ Len(s) >= Len(suffix)
  /\ SubSeq(s, Len(s) - Len(suffix) + 1, Len(s)) = suffix

PageSizes == {<<Pt(100), Pt(150)>>, <<Pt(50), Pt(100)>>}

RECURSIVE SeqsUpTo(_, _)
SeqsUpTo(S, n) ==
  IF n = 0 THEN {<<>>}
  ELSE LET shorter == SeqsUpTo(S, n - 1)
       IN shorter \cup {Append(q, x) : q \in {t \in shorter : Len(t) = n - 1}, x \in S}

\* A source document: page i (0-based) carries its own content, tagged i.
MakeDoc(sizes) ==
  [i \in 1..Len(sizes) |->
     [w |-> sizes[i][1], h |-> sizes[i][2],
      content |-> <<[op |-> "orig", id |-> i - 1]>>]]

Docs == {MakeDoc(q) : q \in SeqsUpTo(PageSizes, MaxPages)}

OldOutput == <<[w |-> Pt(1), h |-> Pt(1), content |-> <<[op |-> "old", id |-> 0]>>]>>

Paths == {P_pdf, P_PDF, P_txt}

Hex_CCCCCC == <<"#", "C", "C", "C", "C", "C", "C">>

WmDefault ==
  [text |-> <<"D", "R", "A", "F", "T">>, font_size |-> 24, opacity |-> 40,
   angle |-> 45, spacing_x |-> 200, spacing_y |-> 150, color |-> Hex_CCCCCC]
WmEmptyText == [WmDefault EXCEPT !.text = <<>>]
WmExtreme ==
  [text |-> <<"A">>, font_size |-> 200, opacity |-> 0, angle |-> 120,
   spacing_x |-> 10, spacing_y |-> 10, color |-> <<"r", "e", "d">>]
WmDense ==
  [text |-> <<"A">>, font_size |-> 8, opacity |-> 100, angle |-> -90,
   spacing_x |-> 100, spacing_y |-> 58, color |-> <<"#", "F", "F", "0", "0", "0", "0">>]

\* main passes text, font size, opacity, angle and colour; the spacings keep
\* the defaults of WatermarkConfig.__init__.
MainWatermarks ==
  {None, Some(WmDefault), Some(WmEmptyText),
   Some([WmExtreme EXCEPT !.spacing_x = 200, !.spacing_y = 150])}
WmFaint ==
  [WmDefault EXCEPT !.opacity = 5, !.color = <<"#", "0", "0", "0", "0", "F", "F">>]
WmBadHex == [WmDefault EXCEPT !.color = <<"#", "G", "G">>]
ApiWatermarks ==
  {None, Some(WmDefault), Some(WmEmptyText), Some(WmExtreme), Some(WmDense),
   Some(WmFaint), Some(WmBadHex)}

\* --qr-size is restricted by argparse to the three presets.
MainSizes == {Str_small, Str_medium, Str_large}
ApiSizes == {Str_small, <<"6", "5">>, <<"0">>, <<"-", "5">>, <<"a", "b", "c">>}
DaviaSizes == {Str_medium, <<"6", "5">>, <<"0">>, <<"a", "b", "c">>}

Footers == {<<"O", "K">>,
            <<"C", "o", "n", "f", "i", "d", "e", "n", "t", "i", "a", "l">>}

ArgSets ==
  {[variant |-> "cli", entry |-> e, input_path |-> f, qr_data |-> <<"u">>,
    footer_message |-> m, qr_size |-> z, watermark |-> w] :
      e \in {"main"}, f \in Paths, m \in Footers, z \in MainSizes, w \in MainWatermarks}
  \cup
  {[variant |-> "cli", entry |-> e, input_path |-> f, qr_data |-> <<"u">>,
    footer_message |-> m, qr_size |-> z, watermark |-> w] :
      e \in {"process_pdf"}, f \in Paths, m \in Footers, z \in ApiSizes, w \in ApiWatermarks}
  \cup
  {[variant |-> "davia", entry |-> e, input_path |-> f, qr_data |-> <<"u">>,
    footer_message |-> m, qr_size |-> z, watermark |-> w] :
      e \in {"seal_pdf"}, f \in Paths, m \in Footers, z \in DaviaSizes, w \in {None}}

NoResult == [kind |-> "none", process_pdf |-> "", exc |-> "", code |-> 0, success |-> FALSE]
NoProbe == [fn |-> "", input |-> <<>>, done |-> FALSE, output |-> <<>>]

Init ==
  /\ args \in ArgSets
  /\ \E exists \in BOOLEAN, d \in Docs, old \in {None, Some(OldOutput)} :
       /\ exists \/ (d = <<>> /\ old = None)
       /\ fs = [exists |-> exists, doc |-> d, out |-> old]
  /\ pc = "start"
  /\ page_num = 0
  /\ handler = None
  /\ canvas = None
  /\ row = 0
  /\ col = 0
  /\ watermark_config = None
  /\ pdf_writer = <<>>
  /\ result = NoResult
  /\ log = <<>>
  /\ probe = NoProbe
  /\ runs = 0

\* ------------------------------------------------------ the operations
Event(ev, n) == [ev |-> ev, page |-> n]

\* A validation that only looks for the file.
validate_input_file_exists_only(file_path) ==
  [exists |-> fs.exists, is_valid |-> fs.exists]

\* validate_input_file of either variant: the file exists and its name ends
\* in ".pdf" once lower-cased.
validate_input_file(file_path) ==
  LET exists == fs.exists
      is_pdf == endswith(lower(file_path), <<".", "p", "d", "f">>)
  IN [exists |-> exists, is_valid |-> exists /\ is_pdf]

\* How an exception raised inside process_pdf's try block leaves the run:
\* the CLI variant prints and re-raises (main then prints and exits 1); the
\* Davia variant catches it and returns a response with success = False.
Raised(e) ==
  CASE args.variant = "cli" /\ args.entry = "process_pdf" ->
         [kind |-> "raised", process_pdf |-> "raised", exc |-> e, code |-> 0,
          success |-> FALSE]
    [] args.variant = "cli" /\ args.entry = "main" ->
         [kind |-> "exit", process_pdf |-> "raised", exc |-> e, code |-> 1,
          success |-> FALSE]
    [] args.variant = "davia" ->
         [kind |-> "returned", process_pdf |-> "returned", exc |-> e, code |-> 0,
          success |-> FALSE]

\* How a run that reached the end of process_pdf leaves it.
Succeeded ==
  CASE args.variant = "cli" /\ args.entry = "process_pdf" ->
         [kind |-> "returned", process_pdf |-> "returned", exc |-> "", code |-> 0,
          success |-> TRUE]
    [] args.variant = "cli" /\ args.entry = "main" ->
         [kind |-> "exit", process_pdf |-> "returned", exc |-> "", code |-> 0,
          success |-> TRUE]
    [] args.variant = "davia" ->
         [kind |-> "returned", process_pdf |-> "returned", exc |-> "", code |-> 0,
          success |-> TRUE]

\* main, up to the call of process_pdf: validation, then the watermark
\* configuration (only for a non-empty --watermark-text).
main_begin ==
  /\ pc = "start" /\ args.entry = "main"
  /\ log' = Append(log, Event("validate", 0))
  /\ IF validate_input_file(args.input_path).is_valid
     THEN /\ watermark_config' =
               IF args.watermark # None /\ args.watermark[1].text # <<>>
               THEN Some(WatermarkConfig(args.watermark[1])) ELSE None
          /\ pc' = "process"
          /\ UNCHANGED result
     ELSE /\ pc' = "done"
          /\ result' = [kind |-> "exit", process_pdf |-> "", exc |-> "", code |-> 1,
                        success |-> FALSE]
          /\ UNCHANGED watermark_config
  /\ UNCHANGED <<runs, args, fs, page_num, handler, canvas, row, col, pdf_writer, probe>>

\* A caller of the library (example_usage.py): builds the optional
\* WatermarkConfig and calls process_pdf without validating.
api_begin ==
  /\ pc = "start" /\ args.entry = "process_pdf"
  /\ watermark_config' =
       IF args.watermark # None THEN Some(WatermarkConfig(args.watermark[1])) ELSE None
  /\ pc' = "process"
  /\ UNCHANGED <<runs, args, fs, page_num, handler, canvas, row, col, pdf_writer, result,
                 log, probe>>

\* QRCodeConfig.validate_size, run when the request is constructed.
validate_size(v) ==
  IF InPresets(v) THEN "" ELSE PyInt(v).err

PDFSealRequest_init ==
  /\ pc = "start" /\ args.entry = "seal_pdf"
  /\ IF validate_size(args.qr_size) = ""
     THEN pc' = "seal_pdf" /\ UNCHANGED result
     ELSE /\ pc' = "done"
          /\ result' = [kind |-> "raised", process_pdf |-> "", exc |-> "ValidationError",
                        code |-> 0, success |-> FALSE]
  /\ UNCHANGED <<runs, args, fs, page_num, handler, canvas, row, col, watermark_config,
                 pdf_writer, log, probe>>

\* seal_pdf, up to the call of process_pdf.
seal_pdf_begin ==
  /\ pc = "seal_pdf"
  /\ log' = Append(log, Event("validate", 0))
  /\ IF validate_input_file(args.input_path).is_valid
     THEN pc' = "process" /\ UNCHANGED result
     ELSE /\ pc' = "done"
          /\ result' = [kind |-> "raised", process_pdf |-> "", exc |-> "FileNotFoundError",
                        code |-> 0, success |-> FALSE]
  /\ UNCHANGED <<runs, args, fs, page_num, handler, canvas, row, col, watermark_config,
                 pdf_writer, probe>>

\* process_pdf: open(input_path, 'rb'), PdfReader, PdfWriter.
open_input ==
  /\ pc = "process"
  /\ IF fs.exists
     THEN /\ log' = Append(log, Event("open_input", 0))
          /\ pdf_writer' = <<>>
          /\ page_num' = 0
          /\ pc' = "loop"
          /\ UNCHANGED result
     ELSE /\ result' = Raised("FileNotFoundError")
          /\ pc' = "done"
          /\ UNCHANGED <<log, pdf_writer, page_num>>
  /\ UNCHANGED <<runs, args, fs, handler, canvas, row, col, watermark_config, probe>>

\* create_header_footer_overlay draws its layers in statement order: the
\* watermark (if a configuration is given), the QR code, the footer; then
\* the overlay is saved and merged.
StagesQRFirst(wc) ==
  IF wc # None THEN <<"qr", "watermark", "footer", "merge">>
  ELSE <<"qr", "footer", "merge">>

Stages(wc) ==
  IF wc # None THEN <<"watermark", "qr", "footer", "merge">>
  ELSE <<"qr", "footer", "merge">>

StageAfter(wc, stage) ==
  LET q == Stages(wc)
      i == CHOOSE j \in 1..Len(q) : q[j] = stage
  IN q[i + 1]

\* Every iteration takes the first page.
CurrentPageFirst == fs.doc[1]

\* The page the loop is at (pdf_reader.pages[page_num]).
CurrentPage == fs.doc[page_num + 1]

\* Top of a loop iteration: the page's geometry, a fresh handler for it and
\* the overlay's canvas (create_header_footer_overlay up to the first layer).
page_begin ==
  /\ pc = "loop" /\ page_num < Len(fs.doc)
  /\ LET page_width == CurrentPage.w
         page_height == CurrentPage.h
         made == PDFHeaderFooter_init(page_width, page_height, args.qr_size)
     IN IF made.err = ""
        THEN /\ handler' = Some(made.obj)
             /\ canvas' = Some(NewCanvas(made.obj.page_width, made.obj.page_height))
             /\ log' = Append(log, Event("compose", page_num))
             /\ pc' = Stages(watermark_config)[1]
             /\ UNCHANGED result
        ELSE /\ result' = Raised(made.err)
             /\ pc' = "done"
             /\ UNCHANGED <<handler, canvas, log>>
  /\ UNCHANGED <<runs, args, fs, page_num, row, col, watermark_config, pdf_writer, probe>>

\* The effective spacing written back into the caller's configuration.
watermark_config_widened(cfg) ==
  [cfg EXCEPT !.spacing_x = wm_spacing_x(cfg) \div Pt(1),
              !.spacing_y = wm_spacing_y(cfg) \div Pt(1)]

\* The configuration object after _add_watermark_to_canvas has set up the
\* font, the colour and the spacing: the effective spacing lives in locals
\* and the opacity is written to the colour, never to the configuration.
watermark_config_after(cfg) == cfg

\* _add_watermark_to_canvas up to the loops.
watermark_setup ==
  /\ pc = "watermark"
  /\ canvas' = Some(watermark_begin(canvas[1], watermark_config[1]))
  /\ watermark_config' = Some(watermark_config_after(watermark_config[1]))
  /\ row' = 0 /\ col' = 0
  /\ pc' = "tiles"
  /\ UNCHANGED <<runs, args, fs, page_num, handler, pdf_writer, result,
                 log, probe>>

\* One tile: for row in range(num_rows): for col in range(num_cols).
watermark_tile ==
  /\ pc = "tiles"
  /\ row < wm_num_rows(handler[1], watermark_config[1])
  /\ col < wm_num_cols(handler[1], watermark_config[1])
  /\ canvas' = Some(draw_tile(canvas[1], handler[1], watermark_config[1], row, col))
  /\ IF col + 1 < wm_num_cols(handler[1], watermark_config[1])
     THEN col' = col + 1 /\ row' = row
     ELSE col' = 0 /\ row' = row + 1
  /\ UNCHANGED <<runs, args, fs, pc, page_num, handler, watermark_config, pdf_writer,
                 result, log, probe>>

\* Both ranges are exhausted: _add_watermark_to_canvas returns.
watermark_done ==
  /\ pc = "tiles"
  /\ ~(/\ row < wm_num_rows(handler[1], watermark_config[1])
       /\ col < wm_num_cols(handler[1], watermark_config[1]))
  /\ row' = 0 /\ col' = 0
  /\ pc' = StageAfter(watermark_config, "watermark")
  /\ UNCHANGED <<runs, args, fs, page_num, handler, canvas, watermark_config, pdf_writer,
                 result, log, probe>>

\* _add_qr_code_to_canvas.  The Davia variant reads
\* self.qr_generator.qr_config, an attribute QRCodeGenerator never sets.
add_qr_code ==
  /\ pc = "qr"
  /\ IF args.variant = "davia"
     THEN /\ result' = Raised("AttributeError")
          /\ pc' = "done"
          /\ UNCHANGED canvas
     ELSE /\ canvas' = Some(add_qr_code_to_canvas(canvas[1], handler[1], args.qr_data))
          /\ pc' = StageAfter(watermark_config, "qr")
          /\ UNCHANGED result
  /\ UNCHANGED <<runs, args, fs, page_num, handler, row, col, watermark_config, pdf_writer,
                 log, probe>>

\* _add_footer_to_canvas, then c.save().
add_footer ==
  /\ pc = "footer"
  /\ canvas' = Some(add_footer_to_canvas(canvas[1], handler[1], args.footer_message))
  /\ pc' = StageAfter(watermark_config, "footer")
  /\ UNCHANGED <<runs, args, fs, page_num, handler, row, col, watermark_config, pdf_writer,
                 result, log, probe>>

\* The output file rewritten after every appended page.
merge_ok_write_each ==
  /\ pc = "merge"
  /\ pdf_writer' = Append(pdf_writer, merge_page(CurrentPage, canvas[1]))
  /\ fs' = [fs EXCEPT !.out = Some(pdf_writer')]
  /\ log' = log \o <<Event("append", page_num), Event("write_output", 0)>>
  /\ page_num' = page_num + 1
  /\ canvas' = None
  /\ pc' = "loop"
  /\ UNCHANGED <<runs, args, handler, row, col, watermark_config, result, probe>>

\* The overlay is read back, merged onto the page, and the page appended.
merge_ok ==
  /\ pc = "merge"
  /\ pdf_writer' = Append(pdf_writer, merge_page(CurrentPage, canvas[1]))
  /\ log' = Append(log, Event("append", page_num))
  /\ page_num' = page_num + 1
  /\ canvas' = None
  /\ pc' = "loop"
  /\ UNCHANGED <<runs, args, fs, handler, row, col, watermark_config, result, probe>>

\* PyPDF2 fails on the overlay or on the page (a malformed object).
merge_fail ==
  /\ pc = "merge"
  /\ result' = Raised("PdfReadError")
  /\ pc' = "done"
  /\ UNCHANGED <<runs, args, fs, page_num, handler, canvas, row, col, watermark_config,
                 pdf_writer, log, probe>>

\* After the last page: open(output_path, 'wb') and pdf_writer.write.
write_ok ==
  /\ pc = "loop" /\ ~(page_num < Len(fs.doc))
  /\ fs' = [fs EXCEPT !.out = Some(pdf_writer)]
  /\ log' = Append(log, Event("write_output", 0))
  /\ result' = Succeeded
  /\ pc' = "done"
  /\ UNCHANGED <<runs, args, page_num, handler, canvas, row, col, watermark_config,
                 pdf_writer, probe>>

\* The output cannot be written: either open() fails and the path is left
\* alone, or the write fails after open() truncated the file.
write_fail ==
  /\ pc = "loop" /\ ~(page_num < Len(fs.doc))
  /\ \E opened \in BOOLEAN :
       /\ fs' = IF opened THEN [fs EXCEPT !.out = Some(<<>>)] ELSE fs
       /\ log' = IF opened THEN Append(log, Event("write_output", 0)) ELSE log
  /\ result' = Raised("OSError")
  /\ pc' = "done"
  /\ UNCHANGED <<runs, args, page_num, handler, canvas, row, col, watermark_config,
                 pdf_writer, probe>>

Next ==
  \/ main_begin
  \/ api_begin
  \/ PDFSealRequest_init
  \/ seal_pdf_begin
  \/ open_input
  \/ page_begin
  \/ watermark_setup
  \/ watermark_tile
  \/ watermark_done
  \/ add_qr_code
  \/ add_footer
  \/ merge_ok
  \/ merge_fail
  \/ write_ok
  \/ write_fail

Spec == Init /\ [][Next]_vars

\* The program is run again, with the same parameters, on the output of a
\* successful run: the sealed document is the new input, and the new output
\* path (main derives <stem>_sealed.pdf from the input path) does not exist.
seal_again ==
  /\ pc = "done" /\ result.success /\ fs.out # None
  /\ runs < MaxRuns - 1
  /\ runs' = runs + 1
  /\ args' = [args EXCEPT !.input_path = P_pdf]
  /\ fs' = [exists |-> TRUE, doc |-> fs.out[1], out |-> None]
  /\ pc' = "start"
  /\ page_num' = 0
  /\ handler' = None
  /\ canvas' = None
  /\ row' = 0
  /\ col' = 0
  /\ watermark_config' = None
  /\ pdf_writer' = <<>>
  /\ result' = NoResult
  /\ log' = <<>>
  /\ UNCHANGED probe

NextRuns ==
  \/ Next
  \/ seal_again

SpecRuns == Init /\ [][NextRuns]_vars

\* The program runs one step after another until it ends.
FairSpec == Spec /\ WF_vars(Next)

\* ------------------------------------- the configuration constructors
FontSizes == {-5, 0, 7, 8, 9, 24, 72, 73, 200}
Opacities == {-50, 0, 9, 10, 40, 100, 101, 250}
Angles == {-180, -91, -90, 0, 45, 90, 91, 120}
Spacings == {0, 49, 50, 200, 500, 501}

WatermarkInputs ==
  {[text |-> <<"A">>, font_size |-> f, opacity |-> o, angle |-> a,
    spacing_x |-> x, spacing_y |-> y, color |-> Hex_CCCCCC] :
      f \in FontSizes, o \in Opacities, a \in Angles, x \in Spacings, y \in Spacings}

SizeAlphabet == {"6", "5", "0", "-", "+", " ", "_", ".", "x"}
SizeInputs == SeqsUpTo(SizeAlphabet, MaxSizeLen) \cup {Str_small, Str_medium, Str_large}

Borders == {-1, 0, 2, 4, 10, 11, 50}

\* QRCodeGenerator.__init__(size='small', border=2): self.border = border;
\* generate_qr_code hands self.border to qrcode.QRCode.
DefaultBorder == 2
QRCodeGenerator_border(border) == border

\* PDFHeaderFooter.__init__ builds QRCodeGenerator(size=qr_size): whatever
\* border the caller has in mind, the generator of a page gets the default.
PDFHeaderFooter_border(border) == QRCodeGenerator_border(DefaultBorder)

\* QRCodeConfig.border: Field(default=2, ge=0, le=10) of the Davia variant.
QRCodeConfig_border(border) ==
  IF border >= 0 /\ border <= 10
  THEN [err |-> "", border |-> border]
  ELSE [err |-> "ValidationError", border |-> DefaultBorder]

ConfigArgs ==
  [variant |-> "cli", entry |-> "config", input_path |-> P_pdf, qr_data |-> <<"u">>,
   footer_message |-> <<"O", "K">>, qr_size |-> Str_small, watermark |-> None]

InitConfig ==
  /\ probe \in {[fn |-> "WatermarkConfig", input |-> a, done |-> FALSE, output |-> <<>>] :
                  a \in WatermarkInputs}
          \cup {[fn |-> "QRCodeGenerator", input |-> z, done |-> FALSE, output |-> <<>>] :
                  z \in SizeInputs}
          \cup {[fn |-> "border", input |-> b, done |-> FALSE, output |-> <<>>] :
                  b \in Borders}
  /\ args = ConfigArgs
  /\ fs = [exists |-> FALSE, doc |-> <<>>, out |-> None]
  /\ pc = "config"
  /\ page_num = 0
  /\ handler = None
  /\ canvas = None
  /\ row = 0
  /\ col = 0
  /\ watermark_config = None
  /\ pdf_writer = <<>>
  /\ result = NoResult
  /\ log = <<>>
  /\ runs = 0

\* WatermarkConfig(...) is constructed from the arguments.
construct_watermark_config ==
  /\ probe.fn = "WatermarkConfig" /\ ~probe.done
  /\ probe' = [probe EXCEPT !.done = TRUE, !.output = Some(WatermarkConfig(probe.input))]
  /\ UNCHANGED <<runs, args, fs, pc, page_num, handler, canvas, row, col, watermark_config,
                 pdf_writer, result, log>>

\* QRCodeGenerator(size) of the CLI variant, and QRCodeConfig(size) followed
\* by QRCodeGenerator(config) of the Davia variant.
construct_qr_generator ==
  /\ probe.fn = "QRCodeGenerator" /\ ~probe.done
  /\ probe' = [probe EXCEPT !.done = TRUE,
                 !.output = Some([cli |-> QRCodeGenerator_init(probe.input),
                                  davia |-> IF validate_size(probe.input) = ""
                                            THEN QRCodeGenerator_init(probe.input)
                                            ELSE [err |-> "ValidationError", size |-> 0]])]
  /\ UNCHANGED <<runs, args, fs, pc, page_num, handler, canvas, row, col, watermark_config,
                 pdf_writer, result, log>>

\* A border handed to QRCodeGenerator directly (example_usage.py), the border
\* of the generator PDFHeaderFooter builds for a page, and QRCodeConfig(border).
construct_border ==
  /\ probe.fn = "border" /\ ~probe.done
  /\ probe' = [probe EXCEPT !.done = TRUE,
                 !.output = Some([generator |-> QRCodeGenerator_border(probe.input),
                                  page |-> PDFHeaderFooter_border(probe.input),
                                  davia |-> QRCodeConfig_border(probe.input)])]
  /\ UNCHANGED <<runs, args, fs, pc, page_num, handler, canvas, row, col, watermark_config,
                 pdf_writer, result, log>>

NextConfig == construct_watermark_config \/ construct_qr_generator \/ construct_border

SpecConfig == InitConfig /\ [][NextConfig]_vars

\* ------------------------------------------------------------ the claims
HasEvent(ev) == \E i \in 1..Len(log) : log[i].ev = ev

IsTile(o) == o.op = "text" /\ o.font = "Helvetica-Bold"
IsFooter(o) == o.op = "text" /\ o.font = "Helvetica"
IsImage(o) == o.op = "image"

TileOps(c) == SelectSeq(c.ops, IsTile)
TileCount(c) == Len(TileOps(c))

\* C1: a successful run of process_pdf writes exactly the N source pages, in
\* source order, each one the source page followed by one overlay; while the
\* run is under way the pages appended so far are the first pages of the
\* source, in order, none skipped or repeated.
C1_PagesInOrder ==
  /\ Len(pdf_writer) <= Len(fs.doc)
  /\ \A i \in 1..Len(pdf_writer) :
       /\ Len(pdf_writer[i].content) = 2
       /\ pdf_writer[i].content[1] = [op |-> "orig", id |-> i - 1]
       /\ pdf_writer[i].content[2].op = "overlay"
  /\ result.success =>
       /\ Len(pdf_writer) = Len(fs.doc)
       /\ fs.out = Some(pdf_writer)

C1_Witness ==
  /\ result.success /\ args.variant = "cli"
  /\ Len(fs.doc) = 2
  /\ fs.doc[1].w # fs.doc[2].w
  /\ Len(fs.out[1]) = 2

\* C2: the overlay being composed has exactly the width and height of the
\* page it is composed for, and every merged page keeps the width and
\* height of its source page and carries an overlay of that same size, also
\* when the pages of the document differ in size.
C2_OverlayGeometry ==
  /\ canvas # None => canvas[1].pagesize = <<fs.doc[page_num + 1].w, fs.doc[page_num + 1].h>>
  /\ \A i \in 1..Len(pdf_writer) :
       LET m == pdf_writer[i]
           o == m.content[Len(m.content)]
       IN /\ m.w = fs.doc[i].w /\ m.h = fs.doc[i].h
          /\ o.w = fs.doc[i].w /\ o.h = fs.doc[i].h

C2_Witness ==
  /\ Len(pdf_writer) = 2
  /\ pdf_writer[1].w # pdf_writer[2].w
  /\ pdf_writer[2].content[2].w = fs.doc[2].w

PageFailures == {"ValueError", "AttributeError", "PdfReadError"}

\* C3: when composing or merging page i fails, the run ends there: no later
\* page is appended, nothing is written, and process_pdf ends by raising.
C3_PageFailurePropagates ==
  (pc = "done" /\ result.exc \in PageFailures) =>
    /\ result.process_pdf = "raised"
    /\ Len(pdf_writer) = page_num
    /\ ~HasEvent("write_output")

\* C4: in a run through main or seal_pdf whose input is missing or does not
\* end in .pdf (in any letter case), validation comes first and ends the run
\* with an error: the input is never opened, no overlay is composed, nothing
\* is written.  An existing file named .pdf or .PDF is opened by main.
C4_ValidationFirst ==
  LET bad == ~fs.exists \/ args.input_path = P_txt
  IN /\ (bad /\ args.entry \in {"main", "seal_pdf"}) =>
          /\ ~HasEvent("open_input") /\ ~HasEvent("compose") /\ ~HasEvent("write_output")
          /\ canvas = None /\ handler = None /\ pdf_writer = <<>>
          /\ HasEvent("validate") =>
               /\ pc = "done"
               /\ \/ result.kind = "exit" /\ result.code = 1
                  \/ result.kind = "raised" /\ result.exc = "FileNotFoundError"
     /\ (~bad /\ args.entry = "main" /\ pc = "done") => HasEvent("open_input")
     /\ log # <<>> /\ args.entry \in {"main", "seal_pdf"} => log[1].ev = "validate"

C4_Witness ==
  /\ args.entry = "main" /\ args.input_path = P_txt /\ fs.exists
  /\ pc = "done" /\ result.kind = "exit" /\ result.code = 1

Nearest(v, lo, hi, r) ==
  /\ lo <= r /\ r <= hi
  /\ v < lo => r = lo
  /\ v > hi => r = hi
  /\ (lo <= v /\ v <= hi) => r = v

\* C5: a constructed WatermarkConfig has font_size in [8,72], opacity in
\* [0.1,1.0], angle in [-90,90] and both spacings in [50,500]; a value in
\* range is kept and a value out of range becomes the nearest bound.
C5_Clamped ==
  (probe.fn = "WatermarkConfig" /\ probe.done) =>
    LET i == probe.input
        o == probe.output[1]
    IN /\ Nearest(i.font_size, 8, 72, o.font_size)
       /\ Nearest(i.opacity, 10, 100, o.opacity)
       /\ Nearest(i.angle, -90, 90, o.angle)
       /\ Nearest(i.spacing_x, 50, 500, o.spacing_x)
       /\ Nearest(i.spacing_y, 50, 500, o.spacing_y)
       /\ o.text = i.text /\ o.color = i.color

C5_Witness ==
  /\ probe.fn = "WatermarkConfig" /\ probe.done
  /\ probe.input.font_size = 200 /\ probe.output[1].font_size = 72
  /\ probe.input.opacity = 0 /\ probe.output[1].opacity = 10
  /\ probe.input.angle = 120 /\ probe.output[1].angle = 90

AllDigits(s) == s # <<>> /\ \A i \in 1..Len(s) : s[i] \in DecDigits

RECURSIVE Pow10(_)
Pow10(n) == IF n = 0 THEN 1 ELSE 10 * Pow10(n - 1)

RECURSIVE Decimal(_)
Decimal(s) ==
  IF s = <<>> THEN 0 ELSE DigitVal(Head(s)) * Pow10(Len(s) - 1) + Decimal(Tail(s))

\* Not any notation of a number: no digit at all, or a letter in it.
NotNumeric(s) ==
  \/ \A i \in 1..Len(s) : s[i] \notin DecDigits
  \/ \E i \in 1..Len(s) : s[i] = "x"

\* C6: "small", "medium" and "large" resolve to 30, 50 and 80; a string of
\* decimal digits resolves to the integer it writes; a string that is neither
\* a size class nor a number is refused with ValueError (by QRCodeConfig's
\* validator first in the Davia variant, which accepts the same strings).
C6_SizeResolution ==
  (probe.fn = "QRCodeGenerator" /\ probe.done) =>
    LET z == probe.input
        r == probe.output[1].cli
        d == probe.output[1].davia
    IN /\ z = Str_small => r = [err |-> "", size |-> 30]
       /\ z = Str_medium => r = [err |-> "", size |-> 50]
       /\ z = Str_large => r = [err |-> "", size |-> 80]
       /\ AllDigits(z) => r = [err |-> "", size |-> Decimal(z)]
       /\ (NotNumeric(z) /\ z \notin {Str_small, Str_medium, Str_large}) =>
            r.err = "ValueError"
       /\ r.err \in {"", "ValueError"}
       /\ (d.err = "") = (r.err = "")
       /\ r.err = "" => d = r

C6_Witness ==
  /\ probe.fn = "QRCodeGenerator" /\ probe.done
  /\ probe.input = <<"6", "5">>
  /\ probe.output[1].cli.size = 65

\* C7: a handler is only ever built with a QR size above 0.
C7_ResolvedSizePositive ==
  handler # None => handler[1].qr_size > 0

\* C8: the grid has floor(w / spacingX) + 2 columns and floor(h / spacingY) + 2
\* rows for the effective spacings, which is at least ceil(w / spacingX) + 1
\* and ceil(h / spacingY) + 1; while the layer is drawn the tiles drawn so far
\* are row * columns + col, and once it is drawn they are columns * rows.
C8_Grid ==
  (canvas # None /\ watermark_config # None) =>
    LET w == handler[1].page_width
        h == handler[1].page_height
        sx == wm_spacing_x(watermark_config[1])
        sy == wm_spacing_y(watermark_config[1])
        cols == CHOOSE k \in 2..(w \div Pt(1) + 2) : (k - 2) * sx <= w /\ w < (k - 1) * sx
        rows == CHOOSE k \in 2..(h \div Pt(1) + 2) : (k - 2) * sy <= h /\ h < (k - 1) * sy
        n == TileCount(canvas[1])
    IN /\ (cols - 1) * sx >= w
       /\ (rows - 1) * sy >= h
       /\ pc = "watermark" => n = 0
       /\ pc = "tiles" => n = row * cols + col /\ row <= rows /\ col < cols
       /\ pc \in {"qr", "footer", "merge", "done"} => n = cols * rows

\* The tiles still to draw, counted from the page and the effective spacings.
C8_Remaining ==
  LET w == handler[1].page_width
      h == handler[1].page_height
      sx == wm_spacing_x(watermark_config[1])
      sy == wm_spacing_y(watermark_config[1])
  IN (w \div sx + 2) * (h \div sy + 2) - TileCount(canvas[1])

\* C8 (continued): the tiling loop terminates: every step of the loop either
\* draws one more tile, leaving fewer (and never fewer than none) to draw, or
\* leaves the loop for the QR code with none left.
C8_Tiling ==
  /\ [](C8_Grid)
  /\ [][pc = "tiles" =>
          \/ pc' = "tiles" /\ C8_Remaining' = C8_Remaining - 1 /\ C8_Remaining' >= 0
          \/ pc' = "qr" /\ C8_Remaining = 0 /\ canvas' = canvas]_vars

C8_Witness ==
  /\ pc = "qr" /\ watermark_config # None /\ canvas # None
  /\ TileCount(canvas[1]) = 12
  /\ handler[1].page_width = wm_spacing_x(watermark_config[1])

\* C9: horizontally adjacent tiles are max(configured spacing_x, text width
\* + 50) apart and vertically adjacent rows max(configured spacing_y,
\* font_size + 50) apart, hence at least text width + 50 and font_size + 50,
\* also when the configured spacing is the smaller one; the first tile is at
\* the top left corner and every row starts at x = 0.
C9_Spacing ==
  (canvas # None /\ watermark_config # None) =>
    LET cfg == watermark_config[1]
        t == TileOps(canvas[1])
        tw == stringWidth(cfg.text, "Helvetica-Bold", cfg.font_size)
        ex == IF Pt(cfg.spacing_x) >= tw + Pt(50) THEN Pt(cfg.spacing_x) ELSE tw + Pt(50)
        ey == IF cfg.spacing_y >= cfg.font_size + 50 THEN Pt(cfg.spacing_y)
              ELSE Pt(cfg.font_size + 50)
    IN /\ t # <<>> => t[1].x = 0 /\ t[1].y = handler[1].page_height
       /\ \A j \in 1..(Len(t) - 1) :
            IF t[j + 1].y = t[j].y
            THEN /\ t[j + 1].x - t[j].x = ex
                 /\ t[j + 1].x - t[j].x >= tw + Pt(50)
            ELSE /\ t[j].y - t[j + 1].y = ey
                 /\ t[j].y - t[j + 1].y >= Pt(cfg.font_size) + Pt(50)
                 /\ t[j + 1].x = 0

C9_Witness ==
  /\ canvas # None /\ watermark_config # None
  /\ Pt(watermark_config[1].spacing_x)
       < stringWidth(watermark_config[1].text, "Helvetica-Bold",
                     watermark_config[1].font_size) + Pt(50)
  /\ watermark_config[1].spacing_y < watermark_config[1].font_size + 50
  /\ TileCount(canvas[1]) >= 4

Rank(o) == IF IsTile(o) THEN 1 ELSE IF IsImage(o) THEN 2 ELSE 3

\* C10: on every overlay the watermark tiles come before the QR code and the
\* QR code before the footer; a finished overlay ends with exactly one QR code
\* and one footer, in that order; without a watermark configuration no tile is
\* drawn, with one the tiles are all drawn before the QR code; main builds a
\* configuration only for a non-empty watermark text.
C10_LayerOrder ==
  /\ canvas # None =>
       LET ops == canvas[1].ops
           n == Len(ops)
       IN /\ \A i, j \in 1..n : i < j => Rank(ops[i]) <= Rank(ops[j])
          /\ watermark_config = None => TileCount(canvas[1]) = 0
          /\ pc = "merge" =>
               /\ n >= 2 /\ IsImage(ops[n - 1]) /\ IsFooter(ops[n])
               /\ n = TileCount(canvas[1]) + 2
               /\ watermark_config # None => TileCount(canvas[1]) >= 4
  /\ (args.entry = "main" /\ pc # "start"
        /\ (args.watermark = None \/ args.watermark[1].text = <<>>)) =>
       watermark_config = None
  /\ (args.watermark = None) => watermark_config = None

C10_Witness ==
  /\ pc = "merge" /\ watermark_config # None
  /\ TileCount(canvas[1]) >= 4
  /\ IsFooter(canvas[1].ops[Len(canvas[1].ops)])

ImageOps(c) == SelectSeq(c.ops, IsImage)
FooterOps(c) == SelectSeq(c.ops, IsFooter)

\* Whether the drawn image o lies within the page of w by h.
C11_Within(o, w, h) ==
  /\ o.x >= 0 /\ o.y >= 0
  /\ o.x + o.width <= w /\ o.y + o.height <= h

\* C11 (as stated): the QR code is a square of the resolved side s at
\* (w - s - 20, h - s - 20), 20pt below the top edge and 20pt left of the right
\* edge, and the square lies within the page.
C11_QRWithinPage ==
  canvas # None =>
    \A i \in 1..Len(ImageOps(canvas[1])) :
      LET o == ImageOps(canvas[1])[i]
          w == handler[1].page_width
          h == handler[1].page_height
          s == Pt(handler[1].qr_size)
      IN /\ o.width = s /\ o.height = s
         /\ o.x = w - s - Pt(20) /\ o.y = h - s - Pt(20)
         /\ C11_Within(o, w, h)

\* C11 (amended): the QR code is drawn unrotated with width and height s at
\* (w - s - 20, h - s - 20), so its top edge is 20pt below the top page edge and
\* its right edge 20pt left of the right page edge; for s > 0 the square lies
\* within the page exactly when s + 20 <= w and s + 20 <= h, and otherwise it
\* extends past the left or the bottom page edge.
C11_QRPlacement ==
  canvas # None =>
    \A i \in 1..Len(ImageOps(canvas[1])) :
      LET o == ImageOps(canvas[1])[i]
          w == handler[1].page_width
          h == handler[1].page_height
          s == Pt(handler[1].qr_size)
      IN /\ o.width = s /\ o.height = s /\ o.rot = 0
         /\ o.x = w - s - Pt(20) /\ o.y = h - s - Pt(20)
         /\ o.y + o.height = h - Pt(20)
         /\ o.x + o.width = w - Pt(20)
         /\ o.image.qr = args.qr_data
         /\ s > 0 =>
              /\ C11_Within(o, w, h) = (s + Pt(20) <= w /\ s + Pt(20) <= h)
              /\ ~C11_Within(o, w, h) => (o.x < 0 \/ o.y < 0)

C11_Witness ==
  /\ canvas # None /\ pc = "footer"
  /\ Len(ImageOps(canvas[1])) = 1
  /\ handler[1].qr_size = 80
  /\ ImageOps(canvas[1])[1].x < 0
  /\ ImageOps(canvas[1])[1].y = 0

\* C12: the footer is one line, the whole message, in Helvetica 10, unrotated,
\* at y = 20 and x = (w - t) / 2 for its rendered width t; when t > w, x is
\* negative and the text runs past both the left and the right page edge.
C12_Footer ==
  canvas # None =>
    /\ Len(FooterOps(canvas[1])) <= 1
    /\ \A i \in 1..Len(FooterOps(canvas[1])) :
         LET o == FooterOps(canvas[1])[i]
             w == handler[1].page_width
             t == GlyphSum(args.footer_message, "Helvetica") * 10 * 2
         IN /\ o.text = args.footer_message
            /\ o.fontsize = 10 /\ o.rot = 0
            /\ o.y = Pt(20)
            /\ 2 * o.x = w - t
            /\ t > w => (o.x < 0 /\ o.x + t > w)
            /\ t <= w => (o.x >= 0 /\ o.x + t <= w)

C12_Witness ==
  /\ canvas # None /\ pc = "merge"
  /\ Len(FooterOps(canvas[1])) = 1
  /\ FooterOps(canvas[1])[1].x < 0
  /\ Len(FooterOps(canvas[1])[1].text) = 12

\* C13: sealing is not idempotent. A document that has been through k
\* successful runs carries, on every page, the unchanged original content
\* followed by exactly k overlays, one per run and in run order; a run only
\* appends its overlay to what the input page already carries, and with the
\* same parameters the stacked overlays are identical copies.
C13_NotIdempotent ==
  /\ \A i \in 1..Len(fs.doc) :
       LET c == fs.doc[i].content
       IN /\ Len(c) = runs + 1
          /\ c[1] = [op |-> "orig", id |-> i - 1]
          /\ \A j \in 2..Len(c) : c[j].op = "overlay"
  /\ \A i \in 1..Len(pdf_writer) :
       LET c == pdf_writer[i].content
       IN /\ Len(c) = runs + 2
          /\ SubSeq(c, 1, Len(c) - 1) = fs.doc[i].content
          /\ \A j \in 2..Len(c) : c[j].op = "overlay" /\ c[j] = c[Len(c)]
  /\ result.success => fs.out = Some(pdf_writer) /\ Len(pdf_writer) = Len(fs.doc)

C13_Witness ==
  /\ result.success /\ runs = 1
  /\ Len(fs.out[1]) = 2
  /\ Len(fs.out[1][2].content) = 3
  /\ fs.out[1][2].content[2] = fs.out[1][2].content[3]
  /\ Len(fs.out[1][2].content[3].ops) > 2

\* The watermark configuration the caller hands to process_pdf.
C14_Configured ==
  IF args.watermark = None \/ (args.entry = "main" /\ args.watermark[1].text = <<>>)
  THEN None
  ELSE Some(WatermarkConfig(args.watermark[1]))

\* C14: the configuration of a run (input path, qr_data, footer_message,
\* qr_size and every field of the watermark configuration) is read-only while
\* the run is under way: no step of a run changes it, every page is composed
\* from the values the run started with, and they are still those values
\* after the run has ended, also when it failed.
C14_ConfigReadOnly ==
  /\ [][pc # "start" => (args' = args /\ watermark_config' = watermark_config)]_vars
  /\ [][args' = args]_vars
  /\ [](pc # "start" =>
          /\ watermark_config \in {None, C14_Configured}
          /\ pc \notin {"seal_pdf", "done"} => watermark_config = C14_Configured
          /\ handler # None => handler[1].qr_size = QRCodeGenerator_init(args.qr_size).size
          /\ canvas # None =>
               \A i \in 1..Len(canvas[1].ops) :
                 LET o == canvas[1].ops[i]
                 IN /\ IsTile(o) => /\ o.text = watermark_config[1].text
                                    /\ o.fontsize = watermark_config[1].font_size
                                    /\ o.rot = watermark_config[1].angle
                    /\ IsImage(o) => o.image.qr = args.qr_data
                    /\ IsFooter(o) => o.text = args.footer_message)

C14_Witness ==
  /\ pc = "done" /\ ~result.success /\ result.exc = "PdfReadError"
  /\ page_num = 1
  /\ watermark_config = Some(WatermarkConfig(WmExtreme))
  /\ TileCount(pdf_writer[1].content[2]) > 0

\* C15: the quiet-zone border of the QR code always lies in [0, 10]: a
\* configured border outside the range is clamped to the nearest bound, one
\* inside it is kept, and the border the caller configures is the border of
\* the QR code drawn on each page.
C15_BorderClamped ==
  (probe.fn = "border" /\ probe.done) =>
    LET b == probe.input
        clamped == Max(0, Min(10, b))
        out == probe.output[1]
    IN /\ out.generator = clamped
       /\ out.page = clamped
       /\ out.davia.err = "" /\ out.davia.border = clamped

IsPdfName(file_path) == endswith(lower(file_path), <<".", "p", "d", "f">>)

\* C16: seal_pdf of the Davia variant raises FileNotFoundError when the input
\* file does not exist, ValueError when it exists but is not a PDF, and an
\* exception when processing the PDF fails.
C16_SealPdfRaises ==
  (args.entry = "seal_pdf" /\ pc = "done" /\ HasEvent("validate")) =>
    /\ ~fs.exists => (result.kind = "raised" /\ result.exc = "FileNotFoundError")
    /\ (fs.exists /\ ~IsPdfName(args.input_path)) =>
         (result.kind = "raised" /\ result.exc = "ValueError")
    /\ (result.process_pdf # "" /\ ~result.success) => result.kind = "raised"

\* C17: in the Davia variant, sealing an existing, readable PDF of N >= 1
\* pages with a valid request returns success = true with a non-empty output
\* path, and the output holds N pages, each with a QR code and a footer.
C17_DaviaSeals ==
  (/\ args.entry = "seal_pdf" /\ pc = "done"
   /\ validate_size(args.qr_size) = "" /\ QRCodeGenerator_init(args.qr_size).size > 0
   /\ fs.exists /\ IsPdfName(args.input_path)
   /\ Len(fs.doc) >= 1
   /\ result.exc \notin {"PdfReadError", "OSError"}) =>
    /\ result.kind = "returned" /\ result.success
    /\ fs.out # None /\ Len(fs.out[1]) = Len(fs.doc)
    /\ \A i \in 1..Len(fs.out[1]) :
         LET o == fs.out[1][i].content[Len(fs.out[1][i].content)]
         IN o.op = "overlay" /\ Len(SelectSeq(o.ops, IsImage)) = 1
                             /\ Len(SelectSeq(o.ops, IsFooter)) = 1

EventsOf(ev) == SelectSeq(log, LAMBDA e : e.ev = ev)

\* C18: the output document starts empty when the input is opened, grows by
\* exactly one page per processed page, and the output path is opened and
\* written at most once, as the last step of the run, after the last page
\* has been appended.  When composing or merging a page fails the output
\* path is never opened or written: a file already there is left as it was.
C18_WriteOnceAtEnd ==
  /\ [](/\ Len(pdf_writer) = Len(EventsOf("append"))
        /\ \A i \in 1..Len(EventsOf("append")) : EventsOf("append")[i].page = i - 1
        /\ (pc = "loop" /\ page_num = 0) => pdf_writer = <<>>
        /\ Len(EventsOf("write_output")) <= 1
        /\ HasEvent("write_output") =>
             /\ log[Len(log)].ev = "write_output"
             /\ pc = "done"
             /\ Len(pdf_writer) = Len(fs.doc)
        /\ (pc = "done" /\ result.exc \in PageFailures) =>
             /\ ~HasEvent("write_output")
             /\ fs.out \in {None, Some(OldOutput)})
  /\ [][fs' # fs =>
          /\ fs'.doc = fs.doc /\ fs'.exists = fs.exists
          /\ pc = "loop" /\ page_num = Len(fs.doc) /\ Len(pdf_writer) = Len(fs.doc)
          /\ pc' = "done"
          /\ result'.exc \notin PageFailures]_vars

C18_Witness ==
  /\ pc = "done" /\ result.exc = "PdfReadError"
  /\ Len(fs.doc) = 2 /\ Len(pdf_writer) = 1 /\ page_num = 1
  /\ fs.out = Some(OldOutput)
  /\ ~HasEvent("write_output")

\* C19: the QR size is resolved once, when the run is configured and before
\* any page is processed; so a run whose size is invalid ends with the
\* invalid-size error for every document, one with zero pages included, and
\* never gets as far as writing an output.
C19_SizeResolvedFirst ==
  (/\ QRCodeGenerator_init(args.qr_size).err # ""
   /\ pc = "done" /\ fs.exists /\ IsPdfName(args.input_path)
   /\ result.exc # "OSError") =>
    /\ ~result.success
    /\ result.exc \in {"ValueError", "ValidationError"}
    /\ ~HasEvent("write_output")

\* The overlay of the same page drawn without any watermark configuration.
C20_Plain ==
  LET c0 == NewCanvas(handler[1].page_width, handler[1].page_height)
      c1 == add_qr_code_to_canvas(c0, handler[1], args.qr_data)
  IN add_footer_to_canvas(c1, handler[1], args.footer_message)

\* C20: the tile of (row, col) is anchored at (col * spacingX, h - row *
\* spacingY) in unrotated page space and carries the configured angle; its
\* translation and rotation are undone once it is drawn, so between tiles and
\* after the watermark layer the canvas transform is the identity with no
\* saved state left.  The QR code and the footer are therefore drawn
\* unrotated at the same positions, and the footer in Helvetica 10 and black,
\* with every watermark configuration exactly as with none.
C20_TransformRestored ==
  canvas # None =>
    LET c == canvas[1]
        h == handler[1]
    IN /\ c.ctm = Identity /\ c.stack = <<>>
       /\ watermark_config # None =>
            LET cfg == watermark_config[1]
                cols == wm_num_cols(h, cfg)
            IN \A j \in 1..TileCount(c) :
                 LET r == (j - 1) \div cols
                     k == (j - 1) % cols
                     o == TileOps(c)[j]
                 IN /\ o.x = k * wm_spacing_x(cfg)
                    /\ o.y = h.page_height - r * wm_spacing_y(cfg)
                    /\ o.rot = cfg.angle
       /\ \A i \in 1..Len(ImageOps(c)) : ImageOps(c)[i] = ImageOps(C20_Plain)[i]
       /\ \A i \in 1..Len(FooterOps(c)) :
            /\ FooterOps(c)[i] = FooterOps(C20_Plain)[i]
            /\ FooterOps(c)[i].font = "Helvetica" /\ FooterOps(c)[i].fontsize = 10
            /\ FooterOps(c)[i].fill = black /\ FooterOps(c)[i].rot = 0
       /\ pc = "merge" => Len(ImageOps(c)) = 1 /\ Len(FooterOps(c)) = 1

C20_Witness ==
  /\ canvas # None /\ pc = "merge"
  /\ watermark_config # None /\ watermark_config[1].angle = 90
  /\ TileCount(canvas[1]) >= 4
  /\ TileOps(canvas[1])[TileCount(canvas[1])].rot = 90
  /\ TileOps(canvas[1])[TileCount(canvas[1])].x > 0
  /\ ImageOps(canvas[1])[1].rot = 0
  /\ FooterOps(canvas[1])[1].fill = black

\* The 24-bit value of the colours that are hex colours, none for the others.
C21_Parsed(color) ==
  CASE color = Hex_CCCCCC -> Some(13421772)
    [] color = <<"#", "F", "F", "0", "0", "0", "0">> -> Some(16711680)
    [] color = <<"#", "0", "0", "0", "0", "F", "F">> -> Some(255)
    [] OTHER -> None

C21_TileFill(cfg) ==
  IF C21_Parsed(cfg.color) = None
  THEN [rgb |-> 8421504, alpha |-> 100]
  ELSE [rgb |-> C21_Parsed(cfg.color)[1], alpha |-> Max(10, Min(100, cfg.opacity))]

C21_TilesOk(ops) ==
  \A i \in 1..Len(ops) :
    IsTile(ops[i]) => ops[i].fill = C21_TileFill(watermark_config[1])

\* C21: a watermark colour that is not a hex colour neither fails the
\* composition nor reaches the caller as an error: the tiles are drawn all
\* the same, in the fixed gray 0x808080 at full opacity whatever opacity is
\* configured, and the QR code and the footer follow; a colour that parses is
\* the tiles' fill colour with alpha equal to the clamped configured opacity.
C21_ColourFallback ==
  watermark_config # None =>
    /\ canvas # None =>
         /\ C21_TilesOk(canvas[1].ops)
         /\ pc \in {"tiles", "qr", "footer", "merge"} =>
              canvas[1].fill \in {C21_TileFill(watermark_config[1]), black}
         /\ pc \in {"qr", "footer", "merge"} =>
              TileCount(canvas[1]) = wm_num_cols(handler[1], watermark_config[1])
                                       * wm_num_rows(handler[1], watermark_config[1])
    /\ \A i \in 1..Len(pdf_writer) :
         LET o == pdf_writer[i].content[Len(pdf_writer[i].content)]
         IN /\ C21_TilesOk(o.ops)
            /\ Len(SelectSeq(o.ops, IsTile)) >= 4
            /\ Len(SelectSeq(o.ops, IsImage)) = 1
            /\ Len(SelectSeq(o.ops, IsFooter)) = 1
    /\ (pc = "done" /\ result.exc = "ValueError") =>
         QRCodeGenerator_init(args.qr_size).err # ""
    /\ (pc = "done" /\ result.exc = "") => result.success

C21_Witness ==
  /\ result.success /\ watermark_config # None
  /\ watermark_config[1].color = <<"#", "G", "G">>
  /\ watermark_config[1].opacity = 40
  /\ Len(fs.out[1]) = 2
  /\ fs.out[1][2].content[2].ops[1].fill = gray
  /\ IsTile(fs.out[1][2].content[2].ops[1])

====
